---------------------------- MODULE Spec2Model ----------------------------
(***************************************************************************)
(* A model of src/src/lib/lua-utils.ts: the comment stripper and detector, *)
(* the line collapser, the string reverser and the heuristic beautifier.   *)
(*                                                                         *)
(* A JavaScript string is modelled as a sequence of one-character strings  *)
(* (its UTF-16 code units).  Every regular expression of the source is     *)
(* modelled by an operator that performs the match the way the regular     *)
(* expression engine does: leftmost position first, greedy quantifiers     *)
(* giving characters back, lazy quantifiers taking them one at a time.     *)
(***************************************************************************)
EXTENDS Integers, Sequences, FiniteSets, TLC

VARIABLES
    code,         \* the argument `code` of the call
    option,       \* toOneLiner's `commentOption` ("none" for the other calls)
    units,        \* the statements and keywords the beautifier's input was built from
    pc,           \* where the caller, or beautifyCode, stands
    result,       \* the value returned by the first call
    again,        \* reverseCode applied to the first result
    detected,     \* the value returned by hasComments
    lines,        \* beautifyCode: processedCode.split('\n')
    idx,          \* beautifyCode: the position of the for..of iterator in `lines`
    indentLevel,  \* beautifyCode: indentLevel
    formatted,    \* beautifyCode: formatted
    logged        \* beautifyCode: the number of calls of console.error

vars == <<code, option, units, pc, result, again, detected,
          lines, idx, indentLevel, formatted, logged>>

-----------------------------------------------------------------------------
(* Strings *)

\* The value of a variable that holds nothing yet.
None == "none"

Max(a, b) == IF a >= b THEN a ELSE b

\* s[i], or the empty string past either end of s.
At(s, i) == IF i >= 1 /\ i <= Len(s) THEN s[i] ELSE ""

\* The characters of s from position i to position j, both included.
Slice(s, i, j) == IF j < i THEN <<>> ELSE SubSeq(s, i, j)

\* The concatenation of the strings of ss, each followed by sep except the last.
RECURSIVE Join(_, _)
Join(ss, sep) ==
    IF Len(ss) = 0 THEN <<>>
    ELSE IF Len(ss) = 1 THEN ss[1]
    ELSE ss[1] \o sep \o Join(Tail(ss), sep)

\* All sequences of at most n elements of T.
SeqsUpTo(T, n) == UNION {[1..k -> T] : k \in 0..n}

\* Whether t occurs in s at position i.
OccursAt(s, i, t) ==
    /\ i >= 1
    /\ i + Len(t) - 1 <= Len(s)
    /\ \A k \in 1..Len(t) : s[i + k - 1] = t[k]

\* \s of the regular expressions: the space, the tab, the line terminators and
\* the other white space ("\f" stands for the white space that is neither).
IsSpace(c) == c \in {" ", "\t", "\n", "\r", "\f"}

\* What `.` does not match, and what `^` with the m flag starts a line after.
IsLineTerminator(c) == c \in {"\n", "\r"}

\* String.prototype.trim.
RECURSIVE TrimStart(_)
TrimStart(s) ==
    IF Len(s) > 0 /\ IsSpace(s[1]) THEN TrimStart(Tail(s)) ELSE s

RECURSIVE TrimEnd(_)
TrimEnd(s) ==
    IF Len(s) > 0 /\ IsSpace(s[Len(s)]) THEN TrimEnd(SubSeq(s, 1, Len(s) - 1)) ELSE s

Trim(s) == TrimEnd(TrimStart(s))

\* The position after the last character `.*` takes from position i on.
RECURSIVE LineEnd(_, _)
LineEnd(s, i) ==
    IF i > Len(s) \/ IsLineTerminator(s[i]) THEN i ELSE LineEnd(s, i + 1)

-----------------------------------------------------------------------------
(* deleteAllComments and hasComments *)

\* (=*) of the long-bracket pattern, at its greediest: the run of `=` at i.
RECURSIVE EqRun(_, _)
EqRun(s, i) == IF At(s, i) = "=" THEN 1 + EqRun(s, i + 1) ELSE 0

\* \]\1\] at position k, \1 being n characters `=`.
CloserAt(s, k, n) ==
    /\ At(s, k) = "]"
    /\ \A j \in 1..n : At(s, k + j) = "="
    /\ At(s, k + n + 1) = "]"

\* [\s\S]* followed by \]\1\], the quantifier greedy: the last closer of the
\* text from position k on.
RECURSIVE GreedyToCloser(_, _, _)
GreedyToCloser(s, k, n) ==
    IF k > Len(s) THEN 0
    ELSE LET later == GreedyToCloser(s, k + 1, n)
         IN  IF later > 0 THEN later
             ELSE IF CloserAt(s, k, n) THEN k + n + 2 ELSE 0

\* [\s\S]*? followed by \]\1\]: the lazy quantifier takes one more character
\* at a time from position k on, until the closer matches.  The position
\* after the closer, or 0 when the end of the text comes first.
RECURSIVE LazyToCloser(_, _, _)
LazyToCloser(s, k, n) ==
    IF k > Len(s) THEN 0
    ELSE IF CloserAt(s, k, n) THEN k + n + 2
    ELSE LazyToCloser(s, k + 1, n)

\* The rest of the long-bracket pattern once `--[` and n characters `=` are
\* taken at position i: `[`, the content, the closer.
BodyAndCloser(s, i, n) ==
    IF At(s, i + 3 + n) = "[" THEN LazyToCloser(s, i + 4 + n, n) ELSE 0

\* The greedy (=*) gives back one `=` at a time until the rest matches.
RECURSIVE TryEqCount(_, _, _)
TryEqCount(s, i, n) ==
    LET e == BodyAndCloser(s, i, n)
    IN  IF e > 0 THEN e
        ELSE IF n = 0 THEN 0
        ELSE TryEqCount(s, i, n - 1)

\* /--\[(=*)\[[\s\S]*?\]\1\]/ at position i: the position after the match, or
\* 0 when there is no match at i.
LongCommentEnd(s, i) ==
    IF OccursAt(s, i, <<"-", "-", "[">>) THEN TryEqCount(s, i, EqRun(s, i + 3)) ELSE 0

\* The matches of the long-bracket pattern under the g flag, from position i
\* on: leftmost first, the search resuming after each match.
RECURSIVE LongSpansFrom(_, _)
LongSpansFrom(s, i) ==
    IF i > Len(s) THEN <<>>
    ELSE LET e == LongCommentEnd(s, i)
         IN  IF e > 0 THEN <<[from |-> i, to |-> e - 1]>> \o LongSpansFrom(s, e)
             ELSE LongSpansFrom(s, i + 1)

LongSpans(s) == LongSpansFrom(s, 1)

\* s without the characters of the spans (which are in order and disjoint).
RECURSIVE CutSpans(_, _, _)
CutSpans(s, spans, i) ==
    IF Len(spans) = 0 THEN Slice(s, i, Len(s))
    ELSE Slice(s, i, spans[1].from - 1) \o CutSpans(s, Tail(spans), spans[1].to + 1)

\* code.replace(/--\[(=*)\[[\s\S]*?\]\1\]/g, '')
RemoveLongComments(s) == CutSpans(s, LongSpans(s), 1)

\* [\[=]*\[ at position j: the greedy class gives characters back until a `[`
\* follows what it keeps.
RECURSIVE BracketRunThenBracket(_, _)
BracketRunThenBracket(s, j) ==
    IF At(s, j) \in {"[", "="} /\ BracketRunThenBracket(s, j + 1) THEN TRUE
    ELSE At(s, j) = "["

\* /--(?![\[=]*\[)/ at position i.
SingleLineAt(s, i) ==
    /\ OccursAt(s, i, <<"-", "-">>)
    /\ ~BracketRunThenBracket(s, i + 2)

\* The matches of /--(?![\[=]*\[).*/g from position i on.
RECURSIVE SingleSpansFrom(_, _)
SingleSpansFrom(s, i) ==
    IF i > Len(s) THEN <<>>
    ELSE IF SingleLineAt(s, i)
         THEN LET e == LineEnd(s, i + 2)
              IN  <<[from |-> i, to |-> e - 1]>> \o SingleSpansFrom(s, e)
         ELSE SingleSpansFrom(s, i + 1)

\* result.replace(/--(?![\[=]*\[).*/g, '')
RemoveSingleLineComments(s) == CutSpans(s, SingleSpansFrom(s, 1), 1)

\* ^ with the m flag at position i.
AtLineStart(s, i) == i = 1 \/ IsLineTerminator(At(s, i - 1))

\* The run of \s characters at position i.
RECURSIVE SpaceRun(_, _)
SpaceRun(s, i) == IF IsSpace(At(s, i)) /\ i <= Len(s) THEN 1 + SpaceRun(s, i + 1) ELSE 0

\* \s*[\r\n] at position i, \s* first taking n characters and giving them
\* back one at a time: the position after the match, or 0.
RECURSIVE SpacesThenNewline(_, _, _)
SpacesThenNewline(s, i, n) ==
    IF At(s, i + n) \in {"\r", "\n"} THEN i + n + 1
    ELSE IF n = 0 THEN 0
    ELSE SpacesThenNewline(s, i, n - 1)

\* /^\s*[\r\n]/gm at position i: the position after the match, or 0.
BlankLineEnd(s, i) ==
    IF AtLineStart(s, i) THEN SpacesThenNewline(s, i, SpaceRun(s, i)) ELSE 0

RECURSIVE BlankSpansFrom(_, _)
BlankSpansFrom(s, i) ==
    IF i > Len(s) THEN <<>>
    ELSE LET e == BlankLineEnd(s, i)
         IN  IF e > 0 THEN <<[from |-> i, to |-> e - 1]>> \o BlankSpansFrom(s, e)
             ELSE BlankSpansFrom(s, i + 1)

\* result.replace(/^\s*[\r\n]/gm, '')
RemoveBlankLines(s) == CutSpans(s, BlankSpansFrom(s, 1), 1)

deleteAllComments(s) ==
    RemoveBlankLines(RemoveSingleLineComments(RemoveLongComments(s)))

\* multiLineRegex.test(code)
MultiLineTest(s) == \E i \in 1..Len(s) : LongCommentEnd(s, i) > 0

\* singleLineRegex.test(code)
SingleLineTest(s) == \E i \in 1..Len(s) : SingleLineAt(s, i)

hasComments(s) == MultiLineTest(s) \/ SingleLineTest(s)

-----------------------------------------------------------------------------
(* The callers of the stripper and the detector *)

\* The pieces the texts given to the stripper are put together from.
StripTokens ==
    { <<"-">>, <<"-", "-">>, <<"[">>, <<"]">>, <<"=">>, <<"x">>, <<" ">>, <<"\n">>,
      <<"-", "-", "[", "[">>, <<"]", "]">>,
      <<"-", "-", "[", "=", "[">>, <<"]", "=", "]">> }

\* The most pieces of one text.
MaxStripTokens == 3

StripInputs == {Join(ts, <<>>) : ts \in SeqsUpTo(StripTokens, MaxStripTokens)}

Idle(c, o, u) ==
    /\ code = c
    /\ option = o
    /\ units = u
    /\ pc = "start"
    /\ result = None
    /\ again = None
    /\ detected = None
    /\ lines = <<>>
    /\ idx = 0
    /\ indentLevel = 0
    /\ formatted = <<>>
    /\ logged = 0

InitStrip == \E c \in StripInputs : Idle(c, None, <<>>)

\* A caller strips the comments of the text.
StripComments ==
    /\ pc = "start"
    /\ result' = deleteAllComments(code)
    /\ pc' = "stripped"
    /\ UNCHANGED <<code, option, units, again, detected, lines, idx, indentLevel, formatted, logged>>

\* A caller asks whether the text holds comments.
DetectComments ==
    /\ pc = "start"
    /\ detected' = hasComments(code)
    /\ pc' = "detected"
    /\ UNCHANGED <<code, option, units, result, again, lines, idx, indentLevel, formatted, logged>>

\* A caller asks whether the stripped text holds comments.
DetectAfterStrip ==
    /\ pc = "stripped"
    /\ detected' = hasComments(result)
    /\ pc' = "checked"
    /\ UNCHANGED <<code, option, units, result, again, lines, idx, indentLevel, formatted, logged>>

NextStrip == StripComments \/ DetectComments \/ DetectAfterStrip

SpecStrip == InitStrip /\ [][NextStrip]_vars

\* The texts in which a complete long-bracket comment stands between two
\* short runs of characters.
JoinChars == {"-", "[", "]", "x"}

\* The most characters on either side of the comment.
MaxSide == 3

JoinInputs ==
    { l \o <<"-", "-", "[", "[", "x", "]", "]">> \o r :
        l \in SeqsUpTo(JoinChars, MaxSide), r \in SeqsUpTo(JoinChars, MaxSide) }

InitJoin == \E c \in JoinInputs : Idle(c, None, <<>>)

SpecJoin == InitJoin /\ [][NextStrip]_vars

-----------------------------------------------------------------------------
(* toOneLiner *)

\* The run of [ \t] characters at position i.
RECURSIVE BlankRun(_, _)
BlankRun(s, i) == IF At(s, i) \in {" ", "\t"} THEN 1 + BlankRun(s, i + 1) ELSE 0

\* \[(?:=|\[)? at position j: a `[`, then a `=` or a `[` when there is one.
BracketLook(s, j) == At(s, j) = "[" /\ (At(s, j + 1) \in {"=", "["} \/ TRUE)

\* [ \t]*(?!\[(?:=|\[)?) at position j, [ \t]* first taking n characters and
\* giving them back one at a time: the position where (.*) starts, or 0.
RECURSIVE BlanksThenNoBracket(_, _, _)
BlanksThenNoBracket(s, j, n) ==
    IF ~BracketLook(s, j + n) THEN j + n
    ELSE IF n = 0 THEN 0
    ELSE BlanksThenNoBracket(s, j, n - 1)

\* The matches of /--[ \t]*(?!\[(?:=|\[)?)(.*)/g from position i on, each with
\* what its group (.*) captured.
RECURSIVE PreserveSpansFrom(_, _)
PreserveSpansFrom(s, i) ==
    IF i > Len(s) THEN <<>>
    ELSE LET c == IF OccursAt(s, i, <<"-", "-">>)
                  THEN BlanksThenNoBracket(s, i + 2, BlankRun(s, i + 2))
                  ELSE 0
             e == LineEnd(s, c)
         IN  IF c > 0
             THEN <<[from |-> i, to |-> e - 1, content |-> Slice(s, c, e - 1)]>>
                  \o PreserveSpansFrom(s, e)
             ELSE PreserveSpansFrom(s, i + 1)

PreserveSpans(s) == PreserveSpansFrom(s, 1)

\* The callback of the replace: (match, content) => ...
BlockComment(content) ==
    LET trimmed == Trim(content)
    IN  IF trimmed # <<>>
        THEN <<" ", "-", "-", "[", "[", " ">> \o trimmed \o <<" ", "]", "]", " ">>
        ELSE <<>>

\* s with each span replaced by the block comment of its content.
RECURSIVE RewriteSpans(_, _, _)
RewriteSpans(s, spans, i) ==
    IF Len(spans) = 0 THEN Slice(s, i, Len(s))
    ELSE Slice(s, i, spans[1].from - 1) \o BlockComment(spans[1].content)
         \o RewriteSpans(s, Tail(spans), spans[1].to + 1)

\* oneLiner.replace(/--[ \t]*(?!\[(?:=|\[)?)(.*)/g, ...)
PreserveComments(s) == RewriteSpans(s, PreserveSpans(s), 1)

\* [\r\n] of the collapsing pattern, without the tab.
IsNewlineOnly(c) == c \in {"\r", "\n"}

\* [\r\n\t]
IsNewlineOrTab(c) == c \in {"\r", "\n", "\t"}

\* .replace(/[\r\n\t]+/g, ' ')
RECURSIVE NewlinesToSpace(_, _)
NewlinesToSpace(s, i) ==
    IF i > Len(s) THEN <<>>
    ELSE IF IsNewlineOrTab(s[i])
         THEN IF IsNewlineOrTab(At(s, i + 1)) THEN NewlinesToSpace(s, i + 1)
              ELSE <<" ">> \o NewlinesToSpace(s, i + 1)
         ELSE <<s[i]>> \o NewlinesToSpace(s, i + 1)

\* .replace(/\s{2,}/g, ' ')
RECURSIVE SqueezeSpaces(_, _)
SqueezeSpaces(s, i) ==
    IF i > Len(s) THEN <<>>
    ELSE LET n == SpaceRun(s, i)
         IN  IF n >= 2 THEN <<" ">> \o SqueezeSpaces(s, i + n)
             ELSE <<s[i]>> \o SqueezeSpaces(s, i + 1)

\* .replace(/[\r\n\t]+/g, ' ').replace(/\s{2,}/g, ' ').trim()
CollapseWhitespace(s) == Trim(SqueezeSpaces(NewlinesToSpace(s, 1), 1))

toOneLiner(s, commentOption) ==
    CollapseWhitespace(IF commentOption = "delete" THEN deleteAllComments(s)
                       ELSE PreserveComments(s))

\* The pieces the texts given to the collapser are put together from.
OneLinerTokens ==
    { <<"-", "-">>, <<"x">>, <<" ">>, <<"\t">>, <<"\n">>, <<"\r">>,
      <<"-", "-", "[", "[">>, <<"]", "]">> }

\* The most pieces of one text.
MaxOneLinerTokens == 4

OneLinerInputs == {Join(ts, <<>>) : ts \in SeqsUpTo(OneLinerTokens, MaxOneLinerTokens)}

InitOneLiner ==
    \E c \in OneLinerInputs : \E o \in {"preserve", "delete"} : Idle(c, o, <<>>)

\* A caller collapses the text.
CollapseToOneLine ==
    /\ pc = "start"
    /\ result' = toOneLiner(code, option)
    /\ pc' = "collapsed"
    /\ UNCHANGED <<code, option, units, again, detected, lines, idx, indentLevel, formatted, logged>>

NextOneLiner == CollapseToOneLine

SpecOneLiner == InitOneLiner /\ [][NextOneLiner]_vars

-----------------------------------------------------------------------------
(* reverseCode *)

\* The middle taken one element short: floor((len - 1) / 2).
MiddleRoundedDown(len) == (len - 1) \div 2

\* Array.prototype.reverse swaps the pairs up to middle = floor(len / 2).
Middle(len) == len \div 2

\* Array.prototype.reverse from the pair at position lower on: the elements
\* at lower and at its mirror position change places, up to the middle.
RECURSIVE ReverseFrom(_, _)
ReverseFrom(a, lower) ==
    IF lower > Middle(Len(a)) THEN a
    ELSE LET upper == Len(a) + 1 - lower
         IN  ReverseFrom([a EXCEPT ![lower] = a[upper], ![upper] = a[lower]], lower + 1)

\* code.split('').reverse().join(''): split('') gives the code units of the
\* string one by one and join('') puts them together again.
reverseCode(s) == ReverseFrom(s, 1)

\* The code units the reversed strings are made of.
ReverseChars == {"a", "b", "c"}

\* The longest string given to reverseCode.
MaxReverseLen == 4

InitReverse == \E c \in SeqsUpTo(ReverseChars, MaxReverseLen) : Idle(c, None, <<>>)

\* A caller reverses the string.
ReverseCode ==
    /\ pc = "start"
    /\ result' = reverseCode(code)
    /\ pc' = "reversed"
    /\ UNCHANGED <<code, option, units, again, detected, lines, idx, indentLevel, formatted, logged>>

\* A caller reverses the reversed string.
ReverseBack ==
    /\ pc = "reversed"
    /\ again' = reverseCode(result)
    /\ pc' = "roundtrip"
    /\ UNCHANGED <<code, option, units, result, detected, lines, idx, indentLevel, formatted, logged>>

NextReverse == ReverseCode \/ ReverseBack

SpecReverse == InitReverse /\ [][NextReverse]_vars

-----------------------------------------------------------------------------
(* beautifyCode *)

LowerCase == {"a", "b", "c", "d", "e", "f", "g", "h", "i", "j", "k", "l", "m",
              "n", "o", "p", "q", "r", "s", "t", "u", "v", "w", "x", "y", "z"}

UpperCase == {"A", "B", "C", "D", "E", "F", "G", "H", "I", "J", "K", "L", "M",
              "N", "O", "P", "Q", "R", "S", "T", "U", "V", "W", "X", "Y", "Z"}

Digits == {"0", "1", "2", "3", "4", "5", "6", "7", "8", "9"}

\* [a-zA-Z_]
IsIdentStart(c) == c \in LowerCase \cup UpperCase \cup {"_"}

\* \w, which decides where \b holds.
IsWordChar(c) == c \in LowerCase \cup UpperCase \cup Digits \cup {"_"}

\* \b between position i - 1 and position i.
WordBoundary(s, i) == IsWordChar(At(s, i - 1)) # IsWordChar(At(s, i))

\* The keywords of the patterns, in the order of their alternatives.
KwThen     == <<"t", "h", "e", "n">>
KwDo       == <<"d", "o">>
KwEnd      == <<"e", "n", "d">>
KwElse     == <<"e", "l", "s", "e">>
KwElseif   == <<"e", "l", "s", "e", "i", "f">>
KwUntil    == <<"u", "n", "t", "i", "l">>
KwFunction == <<"f", "u", "n", "c", "t", "i", "o", "n">>
KwIf       == <<"i", "f">>
KwWhile    == <<"w", "h", "i", "l", "e">>
KwFor      == <<"f", "o", "r">>
KwRepeat   == <<"r", "e", "p", "e", "a", "t">>

\* (then|do)
BreakAfterWords == <<KwThen, KwDo>>
\* (end|else|elseif|until)
ClosingWords == <<KwEnd, KwElse, KwElseif, KwUntil>>
\* (function|if|while|for|repeat|do|then)
OpeningWords == <<KwFunction, KwIf, KwWhile, KwFor, KwRepeat, KwDo, KwThen>>
\* (else|elseif)
ContinuingWords == <<KwElse, KwElseif>>

\* (w1|w2|...)\b at position i: the alternatives are tried in their order and
\* the first that is followed by a word boundary matches.  Its length, or 0.
RECURSIVE WordThenBoundary(_, _, _)
WordThenBoundary(s, i, words) ==
    IF Len(words) = 0 THEN 0
    ELSE IF OccursAt(s, i, words[1]) /\ WordBoundary(s, i + Len(words[1]))
         THEN Len(words[1])
         ELSE WordThenBoundary(s, i, Tail(words))

\* \b(w1|w2|...)\b at position i: the length of the match, or 0.
KeywordAt(s, i, words) ==
    IF WordBoundary(s, i) THEN WordThenBoundary(s, i, words) ELSE 0

\* line.match(/^(w1|w2|...)\b/)
StartsWithKeyword(line, words) == WordThenBoundary(line, 1, words) > 0

\* line.match(/\b(w1|w2|...)\b/)
ContainsKeyword(line, words) == \E i \in 1..Len(line) : KeywordAt(line, i, words) > 0

\* .replace(/;/g, ';\n')
RECURSIVE BreakAfterSemicolons(_, _)
BreakAfterSemicolons(s, i) ==
    IF i > Len(s) THEN <<>>
    ELSE IF s[i] = ";" THEN <<";", "\n">> \o BreakAfterSemicolons(s, i + 1)
    ELSE <<s[i]>> \o BreakAfterSemicolons(s, i + 1)

\* \s*(?=[a-zA-Z_]) at position j, \s* first taking n characters and giving
\* them back one at a time: the position after the match, or 0.
RECURSIVE SpacesThenIdent(_, _, _)
SpacesThenIdent(s, j, n) ==
    IF IsIdentStart(At(s, j + n)) THEN j + n
    ELSE IF n = 0 THEN 0
    ELSE SpacesThenIdent(s, j, n - 1)

\* .replace(/\)\s*(?=[a-zA-Z_])/g, ')\n')
RECURSIVE BreakAfterParens(_, _)
BreakAfterParens(s, i) ==
    IF i > Len(s) THEN <<>>
    ELSE LET e == IF s[i] = ")" THEN SpacesThenIdent(s, i + 1, SpaceRun(s, i + 1)) ELSE 0
         IN  IF e > 0 THEN <<")", "\n">> \o BreakAfterParens(s, e)
             ELSE <<s[i]>> \o BreakAfterParens(s, i + 1)

\* .replace(/\b(then|do)\b/g, '$1\n')
RECURSIVE BreakAfterKeywords(_, _)
BreakAfterKeywords(s, i) ==
    IF i > Len(s) THEN <<>>
    ELSE LET n == KeywordAt(s, i, BreakAfterWords)
         IN  IF n > 0 THEN Slice(s, i, i + n - 1) \o <<"\n">> \o BreakAfterKeywords(s, i + n)
             ELSE <<s[i]>> \o BreakAfterKeywords(s, i + 1)

\* .replace(/\b(end|else|elseif|until)\b/g, '\n$1')
RECURSIVE BreakBeforeKeywords(_, _)
BreakBeforeKeywords(s, i) ==
    IF i > Len(s) THEN <<>>
    ELSE LET n == KeywordAt(s, i, ClosingWords)
         IN  IF n > 0 THEN <<"\n">> \o Slice(s, i, i + n - 1) \o BreakBeforeKeywords(s, i + n)
             ELSE <<s[i]>> \o BreakBeforeKeywords(s, i + 1)

\* The position of the first "\n" of s from position i on, or Len(s) + 1.
RECURSIVE NextNewline(_, _)
NextNewline(s, i) == IF i > Len(s) \/ s[i] = "\n" THEN i ELSE NextNewline(s, i + 1)

\* processedCode.split('\n'): the pieces between the newlines, of which there
\* is one more than there are newlines.
RECURSIVE SplitLines(_, _)
SplitLines(s, i) ==
    LET e == NextNewline(s, i)
    IN  IF e > Len(s) THEN <<Slice(s, i, Len(s))>>
        ELSE <<Slice(s, i, e - 1)>> \o SplitLines(s, e + 1)

\* const indentChar = '  '
indentChar == <<" ", " ">>

\* indentChar.repeat(n), for n >= 0.
RECURSIVE Repeat(_, _)
Repeat(unit, n) == IF n <= 0 THEN <<>> ELSE unit \o Repeat(unit, n - 1)

\* \s*\n at position j, \s* first taking n characters and giving them back
\* one at a time: the position after the match, or 0.
RECURSIVE SpacesThenLineFeed(_, _, _)
SpacesThenLineFeed(s, j, n) ==
    IF At(s, j + n) = "\n" THEN j + n + 1
    ELSE IF n = 0 THEN 0
    ELSE SpacesThenLineFeed(s, j, n - 1)

\* formatted.replace(/\n\s*\n/g, '\n')
RECURSIVE CollapseBlankLines(_, _)
CollapseBlankLines(s, i) ==
    IF i > Len(s) THEN <<>>
    ELSE LET e == IF s[i] = "\n" THEN SpacesThenLineFeed(s, i + 1, SpaceRun(s, i + 1)) ELSE 0
         IN  IF e > 0 THEN <<"\n">> \o CollapseBlankLines(s, e)
             ELSE <<s[i]>> \o CollapseBlankLines(s, i + 1)

\* The longest string the engine builds: an operation whose result would be
\* longer throws a RangeError (ECMAScript bounds the length of a string, and
\* every engine bounds it further).
MaxStringLength == 40

TooLong(s) == Len(s) > MaxStringLength

\* The four replacements that break the code into lines, in their order.
WithSemicolonBreaks(s) == BreakAfterSemicolons(s, 1)
WithParenBreaks(s)     == BreakAfterParens(WithSemicolonBreaks(s), 1)
WithKeywordBreaks(s)   == BreakAfterKeywords(WithParenBreaks(s), 1)
processedCode(s)       == BreakBeforeKeywords(WithKeywordBreaks(s), 1)

\* One of the four replacements cannot build its result.
PreprocessThrows(s) ==
    \/ TooLong(WithSemicolonBreaks(s))
    \/ TooLong(WithParenBreaks(s))
    \/ TooLong(WithKeywordBreaks(s))
    \/ TooLong(processedCode(s))

\* Math.max(0, indentLevel - 1) without its floor.
DecrementUnfloored(level) == level - 1

\* Math.max(0, indentLevel - 1)
Decrement(level) == Max(0, level - 1)

\* indentLevel once the line's leading end/else/elseif/until is accounted for:
\* the value the line is emitted with.
LevelAtEmit(line, level) ==
    IF StartsWithKeyword(line, ClosingWords) THEN Decrement(level) ELSE level

\* indentLevel once the line is emitted: one more when the line holds an
\* opening keyword, holds no `end` and does not start with else/elseif.
LevelAfterEmit(line, level) ==
    IF /\ ContainsKeyword(line, OpeningWords)
       /\ ~ContainsKeyword(line, <<KwEnd>>)
       /\ ~StartsWithKeyword(line, ContinuingWords)
    THEN level + 1
    ELSE level

\* What the line adds to `formatted`.
EmittedLine(line, level) == Repeat(indentChar, level) \o line \o <<"\n">>

\* indentChar.repeat(level) throws for a negative count and for a result too
\* long, and so does the concatenation that follows it.
EmitThrows(line, level) ==
    \/ level < 0
    \/ TooLong(Repeat(indentChar, level))
    \/ TooLong(formatted \o EmittedLine(line, level))

\* An exception leaves the function without being caught.
CatchRethrows(c) == [pc |-> "raised", result |-> None, logged |-> 0]

\* catch (e) { console.error(...); return code; }
CatchBlock(c) == [pc |-> "returned", result |-> c, logged |-> 1]

\* The statements and keywords the texts given to the beautifier are put
\* together from, a space between two of them.
UnitText(u) ==
    CASE u = "if"       -> <<"i", "f", " ", "x", " ", "t", "h", "e", "n">>
      [] u = "ifcall"   -> <<"i", "f", " ", "f", "(", "x", ")", " ", "t", "h", "e", "n">>
      [] u = "elseif"   -> <<"e", "l", "s", "e", "i", "f", " ", "y", " ", "t", "h", "e", "n">>
      [] u = "else"     -> <<"e", "l", "s", "e">>
      [] u = "end"      -> <<"e", "n", "d">>
      [] u = "call"     -> <<"p", "(", ")">>
      [] u = "while"    -> <<"w", "h", "i", "l", "e", " ", "x", " ", "d", "o">>
      [] u = "function" -> <<"f", "u", "n", "c", "t", "i", "o", "n", " ", "f", "(", "x", ")">>
      [] u = "until"    -> <<"u", "n", "t", "i", "l", " ", "x">>
      [] u = "assign"   -> <<"x", "=", "1", ";">>

UnitNames == {"if", "ifcall", "elseif", "else", "end", "call", "while",
              "function", "until", "assign"}

\* The most statements and keywords of one text.
MaxUnits == 4

UnitsText(us) == Join([k \in 1..Len(us) |-> UnitText(us[k])], <<" ">>)

InitBeautify ==
    \E us \in SeqsUpTo(UnitNames, MaxUnits) :
        /\ ~TooLong(UnitsText(us))
        /\ Idle(UnitsText(us), None, us)

\* try { ... const lines = processedCode.split('\n'); let formatted = '';
Preprocess ==
    /\ pc = "start"
    /\ ~PreprocessThrows(code)
    /\ lines' = SplitLines(processedCode(code), 1)
    /\ idx' = 1
    /\ indentLevel' = 0
    /\ formatted' = <<>>
    /\ pc' = "loop"
    /\ UNCHANGED <<code, option, units, result, again, detected, logged>>

\* One of the replacements throws: control goes to the catch block.
PreprocessFails ==
    /\ pc = "start"
    /\ PreprocessThrows(code)
    /\ pc' = "catch"
    /\ UNCHANGED <<code, option, units, result, again, detected, lines, idx,
                   indentLevel, formatted, logged>>

\* line = line.trim(); if (!line) continue;
SkipBlankLine ==
    /\ pc = "loop"
    /\ idx <= Len(lines)
    /\ Trim(lines[idx]) = <<>>
    /\ idx' = idx + 1
    /\ UNCHANGED <<code, option, units, pc, result, again, detected, lines,
                   indentLevel, formatted, logged>>

\* The body of the loop for a line that is not blank.
EmitLine ==
    /\ pc = "loop"
    /\ idx <= Len(lines)
    /\ LET line  == Trim(lines[idx])
           level == LevelAtEmit(line, indentLevel)
       IN  /\ line # <<>>
           /\ ~EmitThrows(line, level)
           /\ formatted' = formatted \o EmittedLine(line, level)
           /\ indentLevel' = LevelAfterEmit(line, level)
    /\ idx' = idx + 1
    /\ UNCHANGED <<code, option, units, pc, result, again, detected, lines, logged>>

\* The body of the loop throws where it builds the line: control goes to the
\* catch block, indentLevel keeping the value the line gave it.
EmitFails ==
    /\ pc = "loop"
    /\ idx <= Len(lines)
    /\ LET line  == Trim(lines[idx])
           level == LevelAtEmit(line, indentLevel)
       IN  /\ line # <<>>
           /\ EmitThrows(line, level)
           /\ indentLevel' = level
    /\ pc' = "catch"
    /\ UNCHANGED <<code, option, units, result, again, detected, lines, idx,
                   formatted, logged>>

\* return formatted.replace(/\n\s*\n/g, '\n').trim();
ReturnFormatted ==
    /\ pc = "loop"
    /\ idx > Len(lines)
    /\ result' = Trim(CollapseBlankLines(formatted, 1))
    /\ pc' = "returned"
    /\ UNCHANGED <<code, option, units, again, detected, lines, idx, indentLevel,
                   formatted, logged>>

\* catch (e) { console.error('Error beautifying code:', e); return code; }
Catch ==
    /\ pc = "catch"
    /\ pc' = CatchBlock(code).pc
    /\ result' = CatchBlock(code).result
    /\ logged' = logged + CatchBlock(code).logged
    /\ UNCHANGED <<code, option, units, again, detected, lines, idx, indentLevel,
                   formatted>>

NextBeautify ==
    \/ Preprocess
    \/ PreprocessFails
    \/ SkipBlankLine
    \/ EmitLine
    \/ EmitFails
    \/ ReturnFormatted
    \/ Catch

SpecBeautify == InitBeautify /\ [][NextBeautify]_vars

-----------------------------------------------------------------------------
(* Comments as the specification defines them *)

\* `--[`, N characters `=`, `[` at position i.
OpenerAt(s, i) ==
    /\ OccursAt(s, i, <<"-", "-", "[">>)
    /\ At(s, i + 3 + EqRun(s, i + 3)) = "["

\* The position of the first character after the opener at position i.
AfterOpener(s, i) == i + 4 + EqRun(s, i + 3)

\* A long-bracket comment opens at i and a closer with its count of `=` follows.
TerminatedLongAt(s, i) ==
    /\ OpenerAt(s, i)
    /\ \E k \in AfterOpener(s, i)..Len(s) : CloserAt(s, k, EqRun(s, i + 3))

\* No long-bracket opener of s lacks its closer.
WellTerminated(s) == \A i \in 1..Len(s) : OpenerAt(s, i) => TerminatedLongAt(s, i)

\* The lines of s: the pieces between its newlines, a last piece that no
\* newline ends included when it is not empty.
RECURSIVE LinesOf(_)
LinesOf(s) ==
    IF Len(s) = 0 THEN <<>>
    ELSE LET e == LineEnd(s, 1)
         IN  <<Slice(s, 1, e - 1)>> \o LinesOf(Slice(s, e + 1, Len(s)))

-----------------------------------------------------------------------------
(* Claims about the stripper and the detector *)

\* C1: for every text whose long-bracket openers all have their closer,
\* hasComments(deleteAllComments(t)) is false.
C1_StrippedHasNoComments ==
    (pc = "checked" /\ WellTerminated(code)) => detected = FALSE

\* C2: hasComments(code) is true if and only if code holds a terminated
\* long-bracket comment or a `--` that does not immediately begin a
\* long-bracket opener (`--[ x` and `--=[ x` are single-line comments).
C2_DetectsExactlyTheComments ==
    pc = "detected" =>
        (detected = TRUE <=>
            \/ \E i \in 1..Len(code) : TerminatedLongAt(code, i)
            \/ \E i \in 1..Len(code) : OccursAt(code, i, <<"-", "-">>) /\ ~OpenerAt(code, i))

\* C3: every long-bracket span deleteAllComments removes opens with `--[`,
\* N `=`, `[` and ends at the first following `]`, N `=`, `]`: a closer
\* with another count of `=` does not end it, and it never runs past the
\* first closer that matches.
C3_SpanEndsAtFirstMatchingCloser ==
    pc = "stripped" =>
        \A k \in 1..Len(LongSpans(code)) :
            LET sp == LongSpans(code)[k]
                n  == EqRun(code, sp.from + 3)
                c  == sp.to - n - 1
            IN  /\ OpenerAt(code, sp.from)
                /\ c >= AfterOpener(code, sp.from)
                /\ CloserAt(code, c, n)
                /\ \A j \in AfterOpener(code, sp.from)..(c - 1) : ~CloserAt(code, j, n)
                /\ k > 1 => sp.from > LongSpans(code)[k - 1].to

\* A removed span that holds a closer with another count of `=` than its own.
C3_Witness ==
    /\ pc = "stripped"
    /\ \E k \in 1..Len(LongSpans(code)) :
          LET sp == LongSpans(code)[k]
              n  == EqRun(code, sp.from + 3)
          IN  \E j \in AfterOpener(code, sp.from)..sp.to :
                 \E m \in 0..2 : m # n /\ CloserAt(code, j, m) /\ j + m + 1 < sp.to

\* C4: no line of the result of deleteAllComments is empty or holds only
\* white space, the first line and an unterminated last line included.
C4_NoBlankLineIsLeft ==
    pc = "stripped" =>
        \A k \in 1..Len(LinesOf(result)) : Trim(LinesOf(result)[k]) # <<>>

-----------------------------------------------------------------------------
(* Claims about the collapser *)

\* The long-bracket comments of s as Lua reads them: from the left, a `--`
\* that opens a terminated long-bracket comment is one, up to its closer, and
\* any other `--` is a comment up to the end of its line.
RECURSIVE LuaLongComments(_, _)
LuaLongComments(s, i) ==
    IF i > Len(s) THEN <<>>
    ELSE IF OccursAt(s, i, <<"-", "-">>)
         THEN IF TerminatedLongAt(s, i)
              THEN LET n == EqRun(s, i + 3)
                       c == CHOOSE k \in AfterOpener(s, i)..Len(s) :
                                /\ CloserAt(s, k, n)
                                /\ \A j \in AfterOpener(s, i)..(k - 1) : ~CloserAt(s, j, n)
                   IN  <<[from |-> i, to |-> c + n + 1]>> \o LuaLongComments(s, c + n + 2)
              ELSE LuaLongComments(s, LineEnd(s, i))
         ELSE LuaLongComments(s, i + 1)

\* C5: in both modes the result of toOneLiner holds no newline and no tab,
\* also when the comment text the preserve mode wraps holds tabs.
C5_NoNewlineNoTab ==
    pc = "collapsed" =>
        \A k \in 1..Len(result) : result[k] \notin {"\n", "\r", "\t"}

\* The preserve mode wrapped a comment whose text holds a tab.
C5_Witness ==
    /\ pc = "collapsed"
    /\ option = "preserve"
    /\ \E k \in 1..Len(PreserveSpans(code)) :
          \E j \in 1..Len(Trim(PreserveSpans(code)[k].content)) :
             Trim(PreserveSpans(code)[k].content)[j] = "\t"

\* C6: in preserve mode the rewriting of comments leaves every terminated
\* long-bracket comment of the text untouched: nothing it rewrites lies
\* between the opener and the closer of one, whatever the comment holds.
C6_LongCommentsUntouched ==
    (pc = "collapsed" /\ option = "preserve") =>
        \A k \in 1..Len(LuaLongComments(code, 1)) :
            \A r \in 1..Len(PreserveSpans(code)) :
                \/ PreserveSpans(code)[r].to < LuaLongComments(code, 1)[k].from
                \/ PreserveSpans(code)[r].from > LuaLongComments(code, 1)[k].to

-----------------------------------------------------------------------------
(* Claims about the reverser *)

\* C7: reverseCode(x) is as long as x, its element at index i is the element
\* of x at index length-1-i, and reverseCode(reverseCode(x)) is x.
C7_ReverseMirrorsAndRoundTrips ==
    /\ pc \in {"reversed", "roundtrip"} =>
          /\ Len(result) = Len(code)
          /\ \A i \in 1..Len(code) : result[i] = code[Len(code) + 1 - i]
    /\ pc = "roundtrip" => again = code

\* A string of three or more units that is not its own reverse went there and back.
C7_Witness ==
    /\ pc = "roundtrip"
    /\ Len(code) >= 3
    /\ result # code

-----------------------------------------------------------------------------
(* Claims about the beautifier *)

\* The lines emitted so far, read back from `formatted`.
EmittedLines == LinesOf(formatted)

\* The number of indent units a line of `formatted` starts with.
DepthOf(line) == (Len(line) - Len(TrimStart(line))) \div Len(indentChar)

\* The lines of ls that are not blank, trimmed, in their order.
RECURSIVE NonBlankTrimmed(_)
NonBlankTrimmed(ls) ==
    IF Len(ls) = 0 THEN <<>>
    ELSE (IF Trim(ls[1]) = <<>> THEN <<>> ELSE <<Trim(ls[1])>>) \o NonBlankTrimmed(Tail(ls))

\* What is left of the call: the lines still to visit while the loop runs, and
\* the return, or the catch block and its return, after it.
StepsLeft ==
    CASE pc = "start"    -> 1
      [] pc = "loop"     -> Len(lines) + 1 - idx
      [] pc = "catch"    -> 0
      [] pc = "returned" -> 0
      [] OTHER           -> 0

Rank ==
    CASE pc = "start"    -> 3
      [] pc = "loop"     -> 2
      [] pc = "catch"    -> 1
      [] OTHER           -> 0

\* C8: beautifyCode returns a string for every input and never raises: the
\* loop visits each split line once, in order, and ends (every step either
\* moves to the next line or leaves the loop for good), and when a step of
\* the transform fails the value returned is the input unchanged.
C8_AlwaysReturnsAString ==
    /\ [](/\ pc # "raised"
          /\ pc = "loop" =>
                /\ idx \in 1..(Len(lines) + 1)
                /\ [k \in 1..Len(EmittedLines) |-> TrimStart(EmittedLines[k])]
                      = NonBlankTrimmed(Slice(lines, 1, idx - 1))
          /\ pc = "returned" =>
                /\ DOMAIN result = 1..Len(result)
                /\ IF logged > 0 THEN result = code
                   ELSE /\ idx = Len(lines) + 1
                        /\ result = Trim(formatted))
    /\ [][ /\ (pc = "loop" /\ pc' = "loop") => idx' = idx + 1
           /\ Rank' < Rank \/ (Rank' = Rank /\ StepsLeft' < StepsLeft)
           /\ StepsLeft' >= 0
         ]_vars

\* A step of the loop failed after a line was emitted, and the input came back.
C8_Witness ==
    /\ pc = "returned"
    /\ logged > 0
    /\ Len(EmittedLines) >= 1
    /\ result = code

\* The block scopes open around each unit of us, from unit k on, `open` being
\* the kinds of the blocks open before unit k: the line of a statement or of
\* a block's opening keyword lies in all of them, the line of an else, an
\* elseif or an end in all but the innermost.
RECURSIVE ScopesFrom(_, _, _)
ScopesFrom(us, k, open) ==
    IF k > Len(us) THEN <<>>
    ELSE LET u == us[k]
         IN  CASE u \in {"if", "ifcall"} ->
                    <<Len(open)>> \o ScopesFrom(us, k + 1, open \o <<"if">>)
               [] u \in {"while", "function"} ->
                    <<Len(open)>> \o ScopesFrom(us, k + 1, open \o <<"block">>)
               [] u = "end" ->
                    <<Len(open) - 1>> \o ScopesFrom(us, k + 1, Slice(open, 1, Len(open) - 1))
               [] u = "else" ->
                    <<Len(open) - 1>>
                    \o ScopesFrom(us, k + 1, Slice(open, 1, Len(open) - 1) \o <<"else">>)
               [] u = "elseif" ->
                    <<Len(open) - 1>> \o ScopesFrom(us, k + 1, open)
               [] OTHER ->
                    <<Len(open)>> \o ScopesFrom(us, k + 1, open)

\* Whether us, from unit k on, is well-nested Lua made of if/elseif/else,
\* while and function blocks: every end closes a block, else and elseif
\* stand in an if that has had no else, and no block is left open.
RECURSIVE WellNestedFrom(_, _, _)
WellNestedFrom(us, k, open) ==
    IF k > Len(us) THEN Len(open) = 0
    ELSE LET u == us[k]
         IN  CASE u \in {"if", "ifcall"} -> WellNestedFrom(us, k + 1, open \o <<"if">>)
               [] u \in {"while", "function"} ->
                    WellNestedFrom(us, k + 1, open \o <<"block">>)
               [] u = "end" ->
                    Len(open) > 0 /\ WellNestedFrom(us, k + 1, Slice(open, 1, Len(open) - 1))
               [] u = "else" ->
                    /\ Len(open) > 0
                    /\ open[Len(open)] = "if"
                    /\ WellNestedFrom(us, k + 1, Slice(open, 1, Len(open) - 1) \o <<"else">>)
               [] u = "elseif" ->
                    /\ Len(open) > 0
                    /\ open[Len(open)] = "if"
                    /\ WellNestedFrom(us, k + 1, open)
               [] u = "until" -> FALSE
               [] OTHER -> WellNestedFrom(us, k + 1, open)

\* The number of characters of s that are not white space.
RECURSIVE Ink(_)
Ink(s) == IF Len(s) = 0 THEN 0 ELSE (IF IsSpace(s[1]) THEN 0 ELSE 1) + Ink(Tail(s))

\* The characters that are not white space in the first n strings of ss.
RECURSIVE InkBefore(_, _)
InkBefore(ss, n) == IF n = 0 THEN 0 ELSE InkBefore(ss, n - 1) + Ink(ss[n])

\* The unit that holds the first character of the k-th emitted line: the
\* replacements add and drop white space only, so the characters that are not
\* white space are those of the units, in their order.
UnitOfLine(k) ==
    LET texts == [j \in 1..Len(units) |-> UnitText(units[j])]
    IN  CHOOSE u \in 1..Len(units) :
            /\ InkBefore(texts, u - 1) <= InkBefore(EmittedLines, k - 1)
            /\ InkBefore(EmittedLines, k - 1) < InkBefore(texts, u)

\* C9: for collapsed, well-nested block input the depth of every emitted line
\* is the number of block scopes open at that line: a block's opening line
\* and its end at the same depth d, the body (after else and elseif too) at
\* d + 1, whatever the condition, one that ends in `)` included.
C9_DepthIsOpenScopes ==
    WellNestedFrom(units, 1, <<>>) =>
        \A k \in 1..Len(EmittedLines) :
            DepthOf(EmittedLines[k]) = ScopesFrom(units, 1, <<>>)[UnitOfLine(k)]

\* C10: in the line loop indentLevel starts at 0 and is never negative; a
\* line changes it by at most 1 either way; and every emitted line starts
\* with exactly as many indent units as indentLevel counts after the
\* decrement of a leading end/else/elseif/until and before the line's own
\* increment.
C10_IndentLevelDrivesThePrefix ==
    /\ [](indentLevel >= 0)
    /\ []((pc = "loop" /\ idx = 1) => indentLevel = 0)
    /\ [][ /\ indentLevel' - indentLevel \in {-1, 0, 1}
           /\ formatted' # formatted =>
                LET line == Trim(lines[idx])
                    read == IF StartsWithKeyword(line, ClosingWords)
                            THEN Max(0, indentLevel - 1)
                            ELSE indentLevel
                IN  /\ formatted' = formatted \o Repeat(indentChar, read) \o line \o <<"\n">>
                    /\ indentLevel' \in {read, read + 1}
         ]_vars

\* Two lines or more are emitted, each starts with a closing keyword, and
\* indentLevel stands at 0.
C10_Witness ==
    /\ pc = "loop"
    /\ Len(EmittedLines) >= 2
    /\ \A k \in 1..Len(EmittedLines) : StartsWithKeyword(EmittedLines[k], ClosingWords)
    /\ indentLevel = 0

=============================================================================
